---------------------------- MODULE Spec2Model ----------------------------
(***************************************************************************)
(* PyBadger: settings composition (ShieldsSettings), the Shields.io URL    *)
(* builder (create, _process_logo) and the badge descriptor (Badge).       *)
(*                                                                         *)
(* Python values are records with one shape, so that any two of them can   *)
(* be compared: t is the type name, s the text of a str / Path / URL as a  *)
(* sequence of one-character strings, b the content of a bytes object as a *)
(* sequence of 0..255, i the value of an int, items the elements of a      *)
(* tuple.                                                                  *)
(***************************************************************************)
EXTENDS Integers, Sequences, FiniteSets, TLC

VARIABLES
    sa,     \* settings spec: left operand / the Badger's default settings
    sb,     \* settings spec: right operand / the per-call settings
    sres,   \* settings spec: outcome of the operation applied to (sa, sb)
    cin,    \* URL builder: the arguments of create and the world it runs in
    cres,   \* URL builder: the outcome of create(cin)
    pin,    \* logo resolver: the logo reference and the world it runs in
    pres,   \* logo resolver: the outcome of _process_logo(pin)
    heap,   \* badges: the Badge objects that exist, by identity (index)
    bop,    \* badges: the last operation on a Badge and its outcome
    sum,    \* badges: the operands and the result of the + that was evaluated
    nops    \* badges: number of operations performed

vars == <<sa, sb, sres, cin, cres, pin, pres, heap, bop, sum, nops>>

-----------------------------------------------------------------------------
(* Python values *)

None == [t |-> "NoneType", s |-> <<>>, b |-> <<>>, i |-> 0, items |-> <<>>]
PyStr(chars) == [None EXCEPT !.t = "str", !.s = chars]
PyBytes(octets) == [None EXCEPT !.t = "bytes", !.b = octets]
PyInt(n) == [None EXCEPT !.t = "int", !.i = n]
PyPath(chars) == [None EXCEPT !.t = "Path", !.s = chars]
PyUrl(chars) == [None EXCEPT !.t = "URL", !.s = chars]
PyTuple(elems) == [None EXCEPT !.t = "tuple", !.items = elems]

\* bool(v): the truth value Python gives an object in `if v`, `v or w`.
Truthy(v) ==
    CASE v.t = "NoneType" -> FALSE
      [] v.t = "str" -> Len(v.s) > 0
      [] v.t = "bytes" -> Len(v.b) > 0
      [] v.t = "int" -> v.i # 0
      [] v.t = "tuple" -> Len(v.items) > 0
      [] OTHER -> TRUE

\* d1 | d2 on dicts: every key of either, d2's value on a key of both.
DictUnion(d1, d2) ==
    [k \in (DOMAIN d1) \cup (DOMAIN d2) |->
        IF k \in DOMAIN d2 THEN d2[k] ELSE d1[k]]

-----------------------------------------------------------------------------
(* Text used as field values *)

T_flat == <<"f", "l", "a", "t">>
T_social == <<"s", "o", "c", "i", "a", "l">>
T_blue == <<"b", "l", "u", "e">>
T_red == <<"r", "e", "d">>
T_white == <<"w", "h", "i", "t", "e">>
T_pypi == <<"p", "y", "p", "i">>
T_docs == <<"d", "o", "c", "s">>
T_npm == <<"n", "p", "m">>
T_auto == <<"a", "u", "t", "o">>
T_png == <<"p", "n", "g">>
T_xyz == <<"x", "y", "z">>
T_q == <<"q">>
T_x == <<"x">>
T_y == <<"y">>
T_l1 == <<"l", "1", ".", "s", "v", "g">>
T_l2 == <<"l", "2", ".", "s", "v", "g">>
T_d1 == <<"d", "1", ".", "s", "v", "g">>
T_d2 == <<"d", "2", ".", "s", "v", "g">>
T_logo_svg == <<"l", "o", "g", "o", ".", "s", "v", "g">>
T_http == <<"h", "t", "t", "p", ":", "/", "/">>
T_https == <<"h", "t", "t", "p", "s", ":", "/", "/">>
T_data == <<"d", "a", "t", "a", ":">>
T_base64 == <<";", "b", "a", "s", "e", "6", "4", ",">>
T_image == <<"i", "m", "a", "g", "e", "/">>
T_PNG == <<"P", "N", "G">>
T_html5 == <<"h", "t", "m", "l", "5">>
T_ftp_png == <<"f", "t", "p", ":", "/", "/", "h", "/", "a", ".", "p", "n", "g">>
T_http_png == <<"h", "t", "t", "p", ":", "/", "/", "h", "/", "a", ".", "p", "n", "g">>
T_https_xyz == <<"h", "t", "t", "p", "s", ":", "/", "/", "h", "/", "a", ".", "x", "y", "z">>
T_https_bare == <<"h", "t", "t", "p", "s", ":", "/", "/", "h", "/", "a">>
T_logo_xyz == <<"l", "o", "g", "o", ".", "x", "y", "z">>
T_logo == <<"l", "o", "g", "o">>

-----------------------------------------------------------------------------
(* ShieldsSettings *)

SettingsFields ==
    {"style", "color", "label", "label_color", "logo", "logo_color",
     "logo_size", "logo_width", "cache_seconds"}

\* ShieldsSettings(): every field defaults to None.
DefaultSettings == [f \in SettingsFields |-> None]

\* ShieldsSettings.__call__: asdict(self), a dict with EVERY field as a key,
\* the unset ones mapped to None.
AsDict(fields) == [f \in SettingsFields |-> fields[f]]

\* An object handed to the + operator: a ShieldsSettings instance (cls, with
\* its fields), None, or an instance of some other class.
SettingsObj(fields) == [cls |-> "ShieldsSettings", fields |-> fields]
NoneObj == [cls |-> "NoneType", fields |-> DefaultSettings]
DictObj == [cls |-> "dict", fields |-> DefaultSettings]

Returned(v) == [exc |-> "", val |-> v]
Raised(e) == [exc |-> e, val |-> NoneObj]


\* Mutant of SettingsAdd: an operand of another class taken as None.
SettingsAdd_AcceptsAny(self, other) ==
    IF other.cls # "ShieldsSettings" THEN Returned(self)
    ELSE Returned(SettingsObj(DictUnion(AsDict(self.fields),
                                        AsDict(other.fields))))

\* ShieldsSettings.__add__
SettingsAdd(self, other) ==
    IF other.cls = "NoneType" THEN Returned(self)
    ELSE IF other.cls # "ShieldsSettings"
         THEN Raised("TypeError")
         ELSE Returned(SettingsObj(DictUnion(AsDict(self.fields),
                                                 AsDict(other.fields))))

\* Mutant of SettingsRAdd: None on the left rejected like any other value.
SettingsRAdd_RejectsNone(self, other) == Raised("TypeError")

\* ShieldsSettings.__radd__
SettingsRAdd(self, other) ==
    IF other.cls = "NoneType" THEN Returned(self) ELSE Raised("TypeError")

\* The expression `left + right` with at least one ShieldsSettings operand:
\* Python calls left.__add__(right) when left is a ShieldsSettings; None and
\* dict define no __add__ for it, so right.__radd__(left) is called.
Plus(left, right) ==
    IF left.cls = "ShieldsSettings" THEN SettingsAdd(left, right)
    ELSE IF right.cls = "ShieldsSettings" THEN SettingsRAdd(right, left)
    ELSE Raised("TypeError")

\* bool() of an operand: a dataclass instance defines neither __bool__ nor
\* __len__ and is always true; None is false; an empty dict is false.
ObjTruthy(o) == o.cls = "ShieldsSettings"

\* ShieldsBadger._shields_settings, on a Badger whose
\* default_shields_settings is `default`.
BadgerShieldsSettings(default, setings) ==
    IF ObjTruthy(setings) THEN Plus(setings, default) ELSE Returned(default)

-----------------------------------------------------------------------------
(* ShieldsBadge._process_logo *)

\* Mutant of StartsWith: only the first character compared.
StartsWith_FirstChar(chars, prefix) ==
    /\ Len(chars) >= 1
    /\ chars[1] = prefix[1]

\* str.startswith(prefix)
StartsWith(chars, prefix) ==
    /\ Len(chars) >= Len(prefix)
    /\ SubSeq(chars, 1, Len(prefix)) = prefix

\* Position of the last occurrence of ch in chars, 0 when there is none.
LastIndexOf(chars, ch) ==
    LET hits == {k \in 1..Len(chars) : chars[k] = ch}
    IN IF hits = {} THEN 0 ELSE CHOOSE k \in hits : \A m \in hits : m <= k

\* chars.rsplit(".", 1)[-1]: the text after the last ".", the whole text
\* when it has no ".".
RSplitDot(chars) == SubSeq(chars, LastIndexOf(chars, ".") + 1, Len(chars))

\* pathlib.PurePath.suffix of a path with this text: taken from the last
\* component (after the last "/"), the text from its last "." on, unless
\* that "." starts or ends the component.
PathSuffix(chars) ==
    LET name == SubSeq(chars, LastIndexOf(chars, "/") + 1, Len(chars))
        dot == LastIndexOf(name, ".")
    IN IF 1 < dot /\ dot < Len(name) THEN SubSeq(name, dot, Len(name))
       ELSE <<>>

\* text[1:]
DropFirst(chars) == SubSeq(chars, 2, Len(chars))

\* The table mime_type of _process_logo: extension -> MIME type.
MimeType ==
    ( <<"a", "p", "n", "g">> :> T_image \o <<"a", "p", "n", "g">> ) @@
    ( <<"a", "v", "i", "f">> :> T_image \o <<"a", "v", "i", "f">> ) @@
    ( <<"b", "m", "p">> :> T_image \o <<"b", "m", "p">> ) @@
    ( <<"g", "i", "f">> :> T_image \o <<"g", "i", "f">> ) @@
    ( <<"i", "c", "o">> :> T_image \o <<"x", "-", "i", "c", "o", "n">> ) @@
    ( <<"j", "p", "g">> :> T_image \o <<"j", "p", "e", "g">> ) @@
    ( <<"j", "p", "e", "g">> :> T_image \o <<"j", "p", "e", "g">> ) @@
    ( <<"p", "n", "g">> :> T_image \o <<"p", "n", "g">> ) @@
    ( <<"s", "v", "g">> :> T_image \o <<"s", "v", "g", "+", "x", "m", "l">> ) @@
    ( <<"t", "i", "f">> :> T_image \o <<"t", "i", "f", "f">> ) @@
    ( <<"t", "i", "f", "f">> :> T_image \o <<"t", "i", "f", "f">> ) @@
    ( <<"w", "e", "b", "p">> :> T_image \o <<"w", "e", "b", "p">> )

\* `extension in mime_type`, for an extension of any type.
InMimeType(extension) == extension.t = "str" /\ extension.s \in DOMAIN MimeType

\* The base64 alphabet (RFC 4648), sextet value + 1 -> character.
B64Alphabet ==
    <<"A", "B", "C", "D", "E", "F", "G", "H", "I", "J", "K", "L", "M",
      "N", "O", "P", "Q", "R", "S", "T", "U", "V", "W", "X", "Y", "Z",
      "a", "b", "c", "d", "e", "f", "g", "h", "i", "j", "k", "l", "m",
      "n", "o", "p", "q", "r", "s", "t", "u", "v", "w", "x", "y", "z",
      "0", "1", "2", "3", "4", "5", "6", "7", "8", "9", "+", "/">>

B64Char(sextet) == B64Alphabet[sextet + 1]

\* base64.b64encode(octets).decode(): three octets give four characters, a
\* last group of one or two octets is padded with "=".
RECURSIVE B64Encode(_)
B64Encode(octets) ==
    IF Len(octets) = 0 THEN <<>>
    ELSE IF Len(octets) = 1 THEN
        <<B64Char(octets[1] \div 4), B64Char((octets[1] % 4) * 16), "=", "=">>
    ELSE IF Len(octets) = 2 THEN
        <<B64Char(octets[1] \div 4),
          B64Char((octets[1] % 4) * 16 + octets[2] \div 16),
          B64Char((octets[2] % 16) * 4), "=">>
    ELSE
        <<B64Char(octets[1] \div 4),
          B64Char((octets[1] % 4) * 16 + octets[2] \div 16),
          B64Char((octets[2] % 16) * 4 + octets[3] \div 64),
          B64Char(octets[3] % 64)>>
            \o B64Encode(SubSeq(octets, 4, Len(octets)))

\* Mutant of EncodeLogo: the parameter's default "png" used as the MIME type.
EncodeLogo_DefaultMime(content, mime) ==
    PyStr(T_data \o T_png \o T_base64 \o B64Encode(content))

\* encode_logo(content, mime_type)
EncodeLogo(content, mime) ==
    PyStr(T_data \o mime \o T_base64 \o B64Encode(content))

\* Outcome of one resolution: the exception raised ("" when none), the
\* string returned, and the I/O performed (requests and file reads, in
\* order), each named by the text of what was fetched or read.
LogoReturned(v, io) == [exc |-> "", val |-> v, io |-> io]
LogoRaised(e, io) == [exc |-> e, val |-> None, io |-> io]

\* The world outside: what _pylinks.http.request / Path.read_bytes give back:
\* the bytes in world.content, or an I/O error when world.fails.
\* After content is fetched or read: extension = extension or <inferred>,
\* then the check against mime_type, then the encoding.
EncodeFetched(extension, inferred, world, io) ==
    LET ext == IF Truthy(extension) THEN extension ELSE PyStr(inferred)
    IN IF world.fails THEN LogoRaised("IOError", io)
       ELSE IF ~InMimeType(ext) THEN LogoRaised("ValueError", io)
       ELSE LogoReturned(EncodeLogo(world.content, MimeType[ext.s]), io)

\* Mutant of ProcessLogo: bytes given without an extension encoded with
\* encode_logo's default MIME type.
ProcessLogo_BytesAsPng(logo, world) ==
    LET isPair == logo.t = "tuple"
        extension == IF isPair /\ Len(logo.items) = 2
                     THEN logo.items[1] ELSE None
        data == IF isPair /\ Len(logo.items) = 2 THEN logo.items[2] ELSE logo
    IN IF isPair /\ Len(logo.items) # 2 THEN LogoRaised("ValueError", <<>>)
       ELSE IF isPair /\ ~InMimeType(extension)
            THEN LogoRaised("ValueError", <<>>)
       ELSE IF data.t = "str" THEN
            IF StartsWith(data.s, T_http) \/ StartsWith(data.s, T_https)
            THEN EncodeFetched(extension, RSplitDot(data.s), world,
                               <<<<"request", data.s>>>>)
            ELSE LogoReturned(data, <<>>)
       ELSE IF data.t = "bytes" THEN
            LogoReturned(EncodeLogo(data.b, IF extension = None THEN T_png
                                            ELSE MimeType[extension.s]), <<>>)
       ELSE IF data.t = "Path" THEN
            EncodeFetched(extension, DropFirst(PathSuffix(data.s)), world,
                          <<<<"read_bytes", data.s>>>>)
       ELSE IF data.t = "URL" THEN
            EncodeFetched(extension, RSplitDot(data.s), world,
                          <<<<"request", data.s>>>>)
       ELSE LogoRaised("ValueError", <<>>)

\* ShieldsBadge._process_logo(logo), run in the given world
ProcessLogo(logo, world) ==
    LET isPair == logo.t = "tuple"
        extension == IF isPair /\ Len(logo.items) = 2
                     THEN logo.items[1] ELSE None
        data == IF isPair /\ Len(logo.items) = 2 THEN logo.items[2] ELSE logo
    IN IF isPair /\ Len(logo.items) # 2 THEN LogoRaised("ValueError", <<>>)
       ELSE IF isPair /\ ~InMimeType(extension)
            THEN LogoRaised("ValueError", <<>>)
       ELSE IF data.t = "str" THEN
            IF StartsWith(data.s, T_http) \/ StartsWith(data.s, T_https)
            THEN EncodeFetched(extension, RSplitDot(data.s), world,
                               <<<<"request", data.s>>>>)
            ELSE LogoReturned(data, <<>>)
       ELSE IF data.t = "bytes" THEN
            IF extension = None THEN LogoRaised("ValueError", <<>>)
            ELSE LogoReturned(EncodeLogo(data.b, MimeType[extension.s]), <<>>)
       ELSE IF data.t = "Path" THEN
            EncodeFetched(extension, DropFirst(PathSuffix(data.s)), world,
                          <<<<"read_bytes", data.s>>>>)
       ELSE IF data.t = "URL" THEN
            EncodeFetched(extension, RSplitDot(data.s), world,
                          <<<<"request", data.s>>>>)
       ELSE LogoRaised("ValueError", <<>>)

-----------------------------------------------------------------------------
(* create: the Shields.io URL builder *)

\* The fields create reads on the settings object it is given: the
\* ShieldsSettings fields and the four dark overlays.
DarkFields == {"color_dark", "label_color_dark", "logo_dark", "logo_color_dark"}
BuilderFields == SettingsFields \cup DarkFields

\* A URL: origin, path and the mapping of its queries.
UrlOf(path, queries) ==
    [origin |-> "https://img.shields.io", path |-> path, queries |-> queries]
NoUrl == [origin |-> "", path |-> "", queries |-> <<>>]

\* `queries or {}`: the argument is None (not given) or a dict.
QueriesOrEmpty(queries) == IF queries.given THEN queries.dict ELSE <<>>

\* common_queries: the five settings every theme shares, then the static
\* queries on top.
CommonQueries(ss, queries) ==
    DictUnion(
        [k \in {"style", "logoSize", "logoWidth", "label", "cacheSeconds"} |->
            CASE k = "style" -> ss["style"]
              [] k = "logoSize" -> ss["logo_size"]
              [] k = "logoWidth" -> ss["logo_width"]
              [] k = "label" -> ss["label"]
              [] k = "cacheSeconds" -> ss["cache_seconds"]],
        QueriesOrEmpty(queries))

\* Mutant of AttachQueries: the `is not None` test left out.
AttachQueries_KeepNone(urlQueries, items) == DictUnion(urlQueries, items)

\* for key, val in items: if val is not None: url.queries[key] = val
\* `items` is a dict here: its keys are distinct, the order does not matter.
AttachQueries(urlQueries, items) ==
    [k \in (DOMAIN urlQueries) \cup {j \in DOMAIN items : items[j] # None} |->
        IF k \in DOMAIN items /\ items[k] # None THEN items[k]
        ELSE urlQueries[k]]

\* logo_light = _process_logo(logo) if logo else None
LightLogo(ss, world) ==
    IF Truthy(ss["logo"]) THEN ProcessLogo(ss["logo"], world)
    ELSE LogoReturned(None, <<>>)

\* Mutant of DarkLogo: a dark logo equal to the light one is not resolved
\* again, the light value is used.
DarkLogo_ReuseWhenSame(ss, logo_light, world) ==
    IF Truthy(ss["logo_dark"]) /\ ss["logo_dark"] # ss["logo"]
    THEN ProcessLogo(ss["logo_dark"], world)
    ELSE LogoReturned(logo_light, <<>>)

\* _process_logo(logo_dark) if logo_dark else logo_light
DarkLogo(ss, logo_light, world) ==
    IF Truthy(ss["logo_dark"]) THEN ProcessLogo(ss["logo_dark"], world)
    ELSE LogoReturned(logo_light, <<>>)

\* The test that decides between a plain and a themed badge.
HasDarkOverlay(ss) ==
    \/ Truthy(ss["logo_dark"])
    \/ Truthy(ss["logo_color_dark"])
    \/ Truthy(ss["color_dark"])
    \/ Truthy(ss["label_color_dark"])

\* The queries the light URL gets after the common ones.
LightQueries(ss, logo_light) ==
    [k \in {"color", "labelColor", "logo", "logoColor"} |->
        CASE k = "color" -> ss["color"]
          [] k = "labelColor" -> ss["label_color"]
          [] k = "logo" -> logo_light
          [] k = "logoColor" -> ss["logo_color"]]

\* The queries the dark URL gets after the common ones.
DarkQueries(ss, logo_dark) ==
    [k \in {"color", "labelColor", "logo", "logoColor"} |->
        CASE k = "color" -> ss["color_dark"]
          [] k = "labelColor" -> ss["label_color_dark"]
          [] k = "logo" -> logo_dark
          [] k = "logoColor" -> ss["logo_color_dark"]]

\* Mutant of DarkUrlBase: the copy taken after the light queries are attached.
DarkUrlBase_AfterLight(afterCommon, afterLight) == afterLight

\* _url_dark = _url.copy(): the queries the dark URL starts from, given the
\* URL after the common queries and the URL after the light ones.
DarkUrlBase(afterCommon, afterLight) == afterCommon

\* Outcome of create: the exception raised ("" when none); whether a themed
\* badge (with a dark URL) was returned; the two URLs; the logo references
\* handed to _process_logo, in order; the I/O performed.
CreateRaised(e, calls, io) ==
    [exc |-> e, themed |-> FALSE, light |-> NoUrl, dark |-> NoUrl,
     resolved |-> calls, io |-> io]
CreateReturned(themed, light, dark, calls, io) ==
    [exc |-> "", themed |-> themed, light |-> light, dark |-> dark,
     resolved |-> calls, io |-> io]

\* Mutant of Create: a dark logo that cannot be resolved is dropped and the
\* light badge returned.
Create_LightOnlyOnDarkFailure(path, queries, ss, world) ==
    LET afterCommon == AttachQueries(<<>>, CommonQueries(ss, queries))
        lres == LightLogo(ss, world)
        lcalls == IF Truthy(ss["logo"]) THEN <<ss["logo"]>> ELSE <<>>
        afterLight == AttachQueries(afterCommon, LightQueries(ss, lres.val))
        dres == DarkLogo(ss, lres.val, world)
        dcalls == IF Truthy(ss["logo_dark"]) THEN <<ss["logo_dark"]>> ELSE <<>>
        afterDark == AttachQueries(DarkUrlBase(afterCommon, afterLight),
                                   DarkQueries(ss, dres.val))
    IN IF lres.exc # "" THEN CreateRaised(lres.exc, lcalls, lres.io)
       ELSE IF ~HasDarkOverlay(ss)
            THEN CreateReturned(FALSE, UrlOf(path, afterLight), NoUrl,
                                lcalls, lres.io)
       ELSE IF dres.exc # ""
            THEN CreateReturned(FALSE, UrlOf(path, afterLight), NoUrl,
                                lcalls \o dcalls, lres.io \o dres.io)
       ELSE CreateReturned(TRUE, UrlOf(path, afterLight),
                           UrlOf(path, afterDark),
                           lcalls \o dcalls, lres.io \o dres.io)

\* create(path, queries, settings): the URL is
\* _pylinks.url.create("https://img.shields.io") / path, named url_light
\* where it is built and _url where it is used.
Create(path, queries, ss, world) ==
    LET afterCommon == AttachQueries(<<>>, CommonQueries(ss, queries))
        lres == LightLogo(ss, world)
        lcalls == IF Truthy(ss["logo"]) THEN <<ss["logo"]>> ELSE <<>>
        afterLight == AttachQueries(afterCommon, LightQueries(ss, lres.val))
        dres == DarkLogo(ss, lres.val, world)
        dcalls == IF Truthy(ss["logo_dark"]) THEN <<ss["logo_dark"]>> ELSE <<>>
        afterDark == AttachQueries(DarkUrlBase(afterCommon, afterLight),
                                   DarkQueries(ss, dres.val))
    IN IF lres.exc # "" THEN CreateRaised(lres.exc, lcalls, lres.io)
       ELSE IF ~HasDarkOverlay(ss)
            THEN CreateReturned(FALSE, UrlOf(path, afterLight), NoUrl,
                                lcalls, lres.io)
       ELSE IF dres.exc # ""
            THEN CreateRaised(dres.exc, lcalls \o dcalls, lres.io \o dres.io)
       ELSE CreateReturned(TRUE, UrlOf(path, afterLight),
                           UrlOf(path, afterDark),
                           lcalls \o dcalls, lres.io \o dres.io)

-----------------------------------------------------------------------------
(* Badge: the badge descriptor *)

AttrFields ==
    {"image_attributes", "anchor_attributes", "picture_attributes",
     "src_light_attributes", "src_dark_attributes"}

\* An optional dict argument: None (not given) or a dict.
NoDict == [given |-> FALSE, dict |-> <<>>]
SomeDict(d) == [given |-> TRUE, dict |-> d]
\* An optional bool argument: None (not given) or a bool.
NoBool == [given |-> FALSE, val |-> FALSE]
SomeBool(v) == [given |-> TRUE, val |-> v]

\* `attrs or {}` in Badge.__init__
DictOrEmpty(arg) == IF arg.given THEN arg.dict ELSE <<>>

\* `a or b` on two values
PyOr(a, b) == IF Truthy(a) THEN a ELSE b

\* Badge.__init__: the object built from the constructor's arguments.
BadgeInit(a) ==
    [src_light |-> a.src_light,
     src_dark |-> a.src_dark,
     image_attributes |-> DictOrEmpty(a.image_attributes),
     anchor_attributes |-> DictOrEmpty(a.anchor_attributes),
     picture_attributes |-> DictOrEmpty(a.picture_attributes),
     src_light_attributes |-> DictOrEmpty(a.src_light_attributes),
     src_dark_attributes |-> DictOrEmpty(a.src_dark_attributes),
     default_img_light |-> a.default_img_light]

\* Mutant of OverrideOr: the override merged into the stored attributes.
OverrideOr_Merged(arg, stored) ==
    IF arg.given THEN DictUnion(stored, arg.dict) ELSE stored

\* `arg if isinstance(arg, dict) else self.<stored>` in img and picture
OverrideOr(arg, stored) == IF arg.given THEN arg.dict ELSE stored

\* Mutant of FlagOr: the argument ignored, the stored flag used.
FlagOr_Stored(arg, stored) == stored

\* `light if light is not None else self.default_img_light`
FlagOr(arg, stored) == IF arg.given THEN arg.val ELSE stored

\* What the markup library is asked to build.  An element that was not
\* built has tag "".
NoElement ==
    [tag |-> "", src |-> None, src_light |-> None, src_dark |-> None,
     image_attributes |-> <<>>, picture_attributes |-> <<>>,
     src_light_attributes |-> <<>>, src_dark_attributes |-> <<>>,
     default_img_light |-> FALSE, wrapped |-> FALSE,
     anchor_attributes |-> <<>>]

\* _html.a(element, a_attrs), or the element itself when a_attrs is empty
WrapInAnchor(element, a_attrs) ==
    IF DOMAIN a_attrs = {} THEN element
    ELSE [element EXCEPT !.wrapped = TRUE, !.anchor_attributes = a_attrs]

\* Badge.img
BadgeImg(self, a) ==
    LET image_attributes == OverrideOr(a.image_attributes, self.image_attributes)
        default_light == FlagOr(a.light, self.default_img_light)
        src == IF default_light THEN self.src_light
               ELSE IF Truthy(self.src_dark) THEN self.src_dark
               ELSE self.src_light
        img == [NoElement EXCEPT !.tag = "img", !.src = src,
                                 !.image_attributes = image_attributes]
    IN WrapInAnchor(img, OverrideOr(a.anchor_attributes, self.anchor_attributes))

\* Mutant of BadgePicture: a badge without a dark URL rendered as img.
BadgePicture_ImgWhenLight(self, a) ==
    IF Truthy(self.src_dark)
    THEN WrapInAnchor(
            [NoElement EXCEPT
                !.tag = "picture",
                !.src_light = self.src_light,
                !.src_dark = self.src_dark,
                !.picture_attributes =
                    OverrideOr(a.picture_attributes, self.picture_attributes),
                !.src_light_attributes =
                    OverrideOr(a.src_light_attributes, self.src_light_attributes),
                !.src_dark_attributes =
                    OverrideOr(a.src_dark_attributes, self.src_dark_attributes),
                !.image_attributes =
                    OverrideOr(a.image_attributes, self.image_attributes),
                !.default_img_light =
                    FlagOr(a.default_img_light, self.default_img_light)],
            OverrideOr(a.anchor_attributes, self.anchor_attributes))
    ELSE BadgeImg(self, [image_attributes |-> a.image_attributes,
                         anchor_attributes |-> a.anchor_attributes,
                         light |-> a.default_img_light])

\* Badge.picture
BadgePicture(self, a) ==
    LET picture ==
            [NoElement EXCEPT
                !.tag = "picture",
                !.src_light = self.src_light,
                !.src_dark = PyOr(self.src_dark, self.src_light),
                !.picture_attributes =
                    OverrideOr(a.picture_attributes, self.picture_attributes),
                !.src_light_attributes =
                    OverrideOr(a.src_light_attributes, self.src_light_attributes),
                !.src_dark_attributes =
                    OverrideOr(a.src_dark_attributes, self.src_dark_attributes),
                !.image_attributes =
                    OverrideOr(a.image_attributes, self.image_attributes),
                !.default_img_light =
                    FlagOr(a.default_img_light, self.default_img_light)]
    IN WrapInAnchor(picture,
                    OverrideOr(a.anchor_attributes, self.anchor_attributes))

\* The arguments of a call that gives none.
NoImgArgs ==
    [image_attributes |-> NoDict, anchor_attributes |-> NoDict, light |-> NoBool]
NoSetArgs ==
    [image_attributes |-> NoDict, anchor_attributes |-> NoDict,
     picture_attributes |-> NoDict, src_light_attributes |-> NoDict,
     src_dark_attributes |-> NoDict, default_img_light |-> NoBool]

\* Badge.__str__: the element that is turned into text
BadgeStr(self) ==
    IF Truthy(self.src_dark) THEN BadgePicture(self, NoSetArgs)
    ELSE BadgeImg(self, NoImgArgs)

\* Mutant of SetAttr: the argument replaces the stored dict.
SetAttr_Replaced(stored, arg) == IF arg.given THEN arg.dict ELSE stored

\* Badge.set, one attribute dict:
\* if value is not None: setattr(self, attr, getattr(self, attr) | value)
SetAttr(stored, arg) ==
    IF arg.given THEN DictUnion(stored, arg.dict) ELSE stored

\* Mutant of BadgeSet: a call that gives src_dark_attributes also resets
\* the dark URL.
BadgeSet_ResetsDark(self, a) ==
    [self EXCEPT
        !.src_dark = IF a.src_dark_attributes.given THEN None ELSE @,
        !.image_attributes = SetAttr(@, a.image_attributes),
        !.anchor_attributes = SetAttr(@, a.anchor_attributes),
        !.picture_attributes = SetAttr(@, a.picture_attributes),
        !.src_light_attributes = SetAttr(@, a.src_light_attributes),
        !.src_dark_attributes = SetAttr(@, a.src_dark_attributes),
        !.default_img_light = FlagOr(a.default_img_light, @)]

\* Badge.set: the object after the call
BadgeSet(self, a) ==
    [self EXCEPT
        !.image_attributes = SetAttr(@, a.image_attributes),
        !.anchor_attributes = SetAttr(@, a.anchor_attributes),
        !.picture_attributes = SetAttr(@, a.picture_attributes),
        !.src_light_attributes = SetAttr(@, a.src_light_attributes),
        !.src_dark_attributes = SetAttr(@, a.src_dark_attributes),
        !.default_img_light = FlagOr(a.default_img_light, @)]

\* Mutant of AddSrc: the left operand's URL preferred.
AddSrc_LeftFirst(selfSrc, otherSrc) == PyOr(selfSrc, otherSrc)

\* Badge.__add__, a URL: other.src or self.src
AddSrc(selfSrc, otherSrc) == PyOr(otherSrc, selfSrc)

\* Mutant of AddAttrs: the left operand's value on a key of both.
AddAttrs_LeftWins(selfAttrs, otherAttrs) == DictUnion(otherAttrs, selfAttrs)

\* Badge.__add__, an attribute dict: self.attrs | other.attrs
AddAttrs(selfAttrs, otherAttrs) == DictUnion(selfAttrs, otherAttrs)

\* Mutant of AddArgs: the flag of the right operand taken, like its URLs.
AddArgs_FlagFromRight(self, other) ==
    [src_light |-> AddSrc(self.src_light, other.src_light),
     src_dark |-> AddSrc(self.src_dark, other.src_dark),
     image_attributes |->
        SomeDict(AddAttrs(self.image_attributes, other.image_attributes)),
     anchor_attributes |->
        SomeDict(AddAttrs(self.anchor_attributes, other.anchor_attributes)),
     picture_attributes |->
        SomeDict(AddAttrs(self.picture_attributes, other.picture_attributes)),
     src_light_attributes |->
        SomeDict(AddAttrs(self.src_light_attributes,
                          other.src_light_attributes)),
     src_dark_attributes |->
        SomeDict(AddAttrs(self.src_dark_attributes, other.src_dark_attributes)),
     default_img_light |-> other.default_img_light]

\* Badge.__add__ with a Badge on the right: the arguments of the Badge(...)
\* call that builds the result.
AddArgs(self, other) ==
    [src_light |-> AddSrc(self.src_light, other.src_light),
     src_dark |-> AddSrc(self.src_dark, other.src_dark),
     image_attributes |->
        SomeDict(AddAttrs(self.image_attributes, other.image_attributes)),
     anchor_attributes |->
        SomeDict(AddAttrs(self.anchor_attributes, other.anchor_attributes)),
     picture_attributes |->
        SomeDict(AddAttrs(self.picture_attributes, other.picture_attributes)),
     src_light_attributes |->
        SomeDict(AddAttrs(self.src_light_attributes,
                          other.src_light_attributes)),
     src_dark_attributes |->
        SomeDict(AddAttrs(self.src_dark_attributes, other.src_dark_attributes)),
     default_img_light |-> self.default_img_light \/ other.default_img_light]

-----------------------------------------------------------------------------
(* Inputs *)

\* Largest number of fields set in a settings object drawn as an input.
MaxPresent == 1

\* Values a caller gives each field (its declared type), None apart.
FieldValues(f) ==
    CASE f = "style" -> {PyStr(T_flat), PyStr(T_social)}
      [] f = "color" -> {PyStr(T_blue), PyStr(T_red)}
      [] f = "label" -> {PyStr(T_pypi), PyStr(T_docs)}
      [] f = "label_color" -> {PyStr(T_blue), PyStr(T_red)}
      [] f \in {"logo", "logo_dark"} ->
            {PyStr(T_npm), PyStr(<<>>),
             PyTuple(<<PyStr(T_png), PyBytes(<<137, 80>>)>>),
             PyTuple(<<PyStr(T_xyz), PyBytes(<<137, 80>>)>>),
             PyPath(T_logo_svg)}
      [] f = "logo_color" -> {PyStr(T_white), PyStr(T_red)}
      [] f = "logo_size" -> {PyStr(T_auto)}
      [] f = "logo_width" -> {PyInt(16), PyInt(32)}
      [] f = "cache_seconds" -> {PyInt(0), PyInt(3600)}
      [] f = "color_dark" -> {PyStr(T_white), PyStr(<<>>)}
      [] f = "label_color_dark" -> {PyStr(T_white), PyStr(<<>>)}
      [] f = "logo_color_dark" -> {PyStr(T_white), PyStr(<<>>)}

\* The settings objects with at most MaxPresent fields set.
SettingsInputs ==
    UNION {
        {[f \in SettingsFields |-> IF f \in P THEN g[f] ELSE None] :
            g \in {h \in [P -> UNION {FieldValues(f) : f \in P}] :
                    \A f \in P : h[f] \in FieldValues(f)}}
        : P \in {Q \in SUBSET SettingsFields : Cardinality(Q) <= MaxPresent}}

Operands ==
    {SettingsObj(x) : x \in SettingsInputs}
        \cup {NoneObj, DictObj}

\* The settings objects create is given: at most MaxPresent + 1 of the
\* fields it reads are set.
BuilderSettings ==
    UNION {
        {[f \in BuilderFields |-> IF f \in P THEN g[f] ELSE None] :
            g \in {h \in [P -> UNION {FieldValues(f) : f \in P}] :
                    \A f \in P : h[f] \in FieldValues(f)}}
        : P \in {Q \in SUBSET BuilderFields : Cardinality(Q) <= MaxPresent + 1}}

\* The query keys a caller passes as static queries: the nine keys the
\* settings render to, and one of the endpoint's own.
StaticKeys ==
    {"style", "logoSize", "logoWidth", "label", "cacheSeconds",
     "color", "labelColor", "logo", "logoColor", "message"}

\* The `queries` argument: not given, or a dict of at most one key whose
\* value is a string or None.
StaticQueries ==
    {[given |-> FALSE, dict |-> <<>>], [given |-> TRUE, dict |-> <<>>]}
        \cup {[given |-> TRUE, dict |-> k :> v] :
                k \in StaticKeys, v \in {None, PyStr(T_q)}}

\* What a fetch or a file read gives back.
Worlds ==
    {[content |-> <<60, 115, 62>>, fails |-> FALSE],
     [content |-> <<>>, fails |-> TRUE]}

\* A logo reference whose resolution fetches or reads.
NeedsIO(v) ==
    \/ v.t \in {"Path", "URL"}
    \/ v.t = "str" /\ (StartsWith(v.s, T_http) \/ StartsWith(v.s, T_https))
    \/ /\ v.t = "tuple"
       /\ Len(v.items) = 2
       /\ InMimeType(v.items[1])
       /\ \/ v.items[2].t \in {"Path", "URL"}
          \/ /\ v.items[2].t = "str"
             /\ \/ StartsWith(v.items[2].s, T_http)
                \/ StartsWith(v.items[2].s, T_https)

\* The calls of create: a failing world is drawn only for a call that
\* fetches or reads.
CreateCalls ==
    {c \in [path : {"badge/v/mypkg"}, queries : StaticQueries,
            settings : BuilderSettings, world : Worlds] :
        c.world.fails => NeedsIO(c.settings["logo"])
                            \/ NeedsIO(c.settings["logo_dark"])}

\* Attribute dicts: every dict over these keys with these values.
AttrKeys == {"alt", "title"}
AttrValues == {PyStr(T_x), PyStr(T_y)}
AttrDicts == UNION {[K -> AttrValues] : K \in SUBSET AttrKeys}

\* The URLs a Badge is built with.
SrcLights == {PyStr(T_l1), PyStr(T_l2), PyStr(<<>>)}
SrcDarks == {PyStr(T_d1), PyStr(T_d2), PyStr(<<>>)}

\* Badge(src_light) with the defaults of every other parameter.
PlainBadge(src) ==
    [src_light |-> src, src_dark |-> None,
     image_attributes |-> NoDict, anchor_attributes |-> NoDict,
     picture_attributes |-> NoDict, src_light_attributes |-> NoDict,
     src_dark_attributes |-> NoDict, default_img_light |-> TRUE]

\* The constructor calls: src_light and at most one more argument.
BadgeArgs ==
    UNION {
        {PlainBadge(src), [PlainBadge(src) EXCEPT !.default_img_light = FALSE]}
        \cup {[PlainBadge(src) EXCEPT !.src_dark = d] : d \in SrcDarks}
        \cup {[PlainBadge(src) EXCEPT ![f] = SomeDict(m)] :
                f \in AttrFields, m \in AttrDicts \ {<<>>}}
        : src \in SrcLights}

\* The calls of set and picture: at most one argument given.
SetArgs ==
    {NoSetArgs}
    \cup {[NoSetArgs EXCEPT ![f] = SomeDict(m)] : f \in AttrFields, m \in AttrDicts}
    \cup {[NoSetArgs EXCEPT !.default_img_light = SomeBool(v)] : v \in BOOLEAN}

\* The calls of img: at most one argument given.
ImgArgs ==
    {NoImgArgs}
    \cup {[NoImgArgs EXCEPT ![f] = SomeDict(m)] :
            f \in {"image_attributes", "anchor_attributes"}, m \in AttrDicts}
    \cup {[NoImgArgs EXCEPT !.light = SomeBool(v)] : v \in BOOLEAN}

\* The right operand of +: a Badge (by identity), None, or something else.
BadgeRef(id) == [kind |-> "Badge", id |-> id]
NoneRef == [kind |-> "NoneType", id |-> 0]
StrRef == [kind |-> "str", id |-> 0]

\* Largest number of operations performed on the badges of one run.
MaxOps == 1

\* Longest bytes object drawn as the content of a logo.
MaxBytes == 3

\* The octets a logo's content is made of.
Octets == {0, 1, 63, 64, 128, 255}

\* The bytes objects of at most MaxBytes octets.
ByteSeqs == UNION {[1..n -> Octets] : n \in 0..MaxBytes}

\* The extensions a caller names: the keys of mime_type and three that are
\* not among them.
Extensions == (DOMAIN MimeType) \cup {T_xyz, T_PNG, <<>>}

\* str logo references: icon names, and the text of URLs.
LogoNames == {PyStr(T_npm), PyStr(T_html5), PyStr(<<>>), PyStr(T_ftp_png)}
LogoUrlTexts == {T_http_png, T_https_xyz, T_https_bare}
\* Path logo references.
LogoPaths == {PyPath(T_logo_svg), PyPath(T_logo_xyz), PyPath(T_logo)}

\* Logo references that are not bytes: str, Path and URL objects.
LogoSources ==
    LogoNames \cup {PyStr(u) : u \in LogoUrlTexts}
        \cup LogoPaths \cup {PyUrl(u) : u \in LogoUrlTexts}

\* The `logo` argument of _process_logo: bytes, a str, a Path, a URL, a
\* pair (extension, data), or a tuple that is not a pair.
LogoRefs ==
    {PyBytes(b) : b \in ByteSeqs}
        \cup LogoSources
        \cup {PyTuple(<<PyStr(e), PyBytes(b)>>) : e \in Extensions, b \in ByteSeqs}
        \cup {PyTuple(<<PyStr(e), d>>) : e \in {T_png, T_xyz}, d \in LogoSources}
        \cup {PyTuple(<<None, PyBytes(<<1>>)>>),
              PyTuple(<<PyStr(T_png)>>),
              PyTuple(<<PyStr(T_png), PyBytes(<<1>>), PyBytes(<<1>>)>>)}

\* The calls of _process_logo: a failing world is drawn only for a call
\* that fetches or reads.
LogoCalls ==
    {c \in [logo : LogoRefs, world : Worlds] :
        c.world.fails => NeedsIO(c.logo)}

\* Largest number of set calls that follow the + of one run.
MaxSets == 2

\* The constructor calls of the badges that are added and then set.
ShareArgs ==
    {PlainBadge(PyStr(T_l1)),
     [PlainBadge(PyStr(T_l1)) EXCEPT !.src_dark = PyStr(T_d1)],
     [PlainBadge(PyStr(T_l2)) EXCEPT
        !.image_attributes = SomeDict("alt" :> PyStr(T_x))],
     [PlainBadge(PyStr(T_l2)) EXCEPT !.default_img_light = FALSE]}

\* The set calls made on them.
ShareSetArgs ==
    {[NoSetArgs EXCEPT !.image_attributes = SomeDict("alt" :> PyStr(T_y))],
     [NoSetArgs EXCEPT !.image_attributes = SomeDict("title" :> PyStr(T_x))],
     [NoSetArgs EXCEPT !.anchor_attributes = SomeDict("title" :> PyStr(T_y))],
     [NoSetArgs EXCEPT !.default_img_light = SomeBool(FALSE)],
     [NoSetArgs EXCEPT !.default_img_light = SomeBool(TRUE)]}
-----------------------------------------------------------------------------
(* Settings composition: the operands are drawn, then one operation is      *)
(* applied to them.                                                         *)

NoCall ==
    [path |-> "", queries |-> [given |-> FALSE, dict |-> <<>>],
     settings |-> [f \in BuilderFields |-> None],
     world |-> [content |-> <<>>, fails |-> FALSE]]
NoResult == [CreateRaised("", <<>>, <<>>) EXCEPT !.exc = "pending"]

\* The record of an operation on a Badge: its name, the object it was called
\* on, its right operand (for +), its arguments, the exception raised, the
\* object returned (0: none) and the element built.
NoOp ==
    [name |-> "", self |-> 0, other |-> NoneRef, args |-> NoSetArgs,
     exc |-> "", ret |-> 0, element |-> NoElement]

Pending == [op |-> "pending", exc |-> "", val |-> NoneObj]

\* No + evaluated yet: the identities of its left operand and of its result
\* (0: none), and its right operand.
NoSum == [self |-> 0, other |-> NoneRef, ret |-> 0]

\* No logo resolved: the reference None, and an outcome that is pending.
NoLogoCall == [logo |-> None, world |-> [content |-> <<>>, fails |-> FALSE]]
NoLogoResult == LogoRaised("pending", <<>>)

InitSettings ==
    /\ sa \in Operands
    /\ sb \in Operands
    /\ sres = Pending
    /\ cin = NoCall
    /\ cres = NoResult
    /\ heap = <<>>
    /\ bop = NoOp
    /\ nops = 0
    /\ pin = NoLogoCall
    /\ pres = NoLogoResult
    /\ sum = NoSum

\* sa + sb
Add ==
    /\ sres.op = "pending"
    /\ sa.cls = "ShieldsSettings" \/ sb.cls = "ShieldsSettings"
    /\ sres' = [op |-> "add"] @@ Plus(sa, sb)
    /\ UNCHANGED <<cin, cres, pin, pres, heap, bop, sum, nops>>
    /\ UNCHANGED <<sa, sb>>

\* ShieldsBadger(default_shields_settings=sa)._shields_settings(sb)
EffectiveSettings ==
    /\ sres.op = "pending"
    /\ sa.cls \in {"ShieldsSettings", "NoneType"}
    /\ sb.cls \in {"ShieldsSettings", "NoneType"}
    /\ sres' = [op |-> "effective"] @@ BadgerShieldsSettings(sa, sb)
    /\ UNCHANGED <<cin, cres, pin, pres, heap, bop, sum, nops>>
    /\ UNCHANGED <<sa, sb>>

NextSettings == Add \/ EffectiveSettings

SpecSettings == InitSettings /\ [][NextSettings]_vars

-----------------------------------------------------------------------------
(* The URL builder: the arguments are drawn, then create is applied.        *)

InitCreate ==
    /\ cin \in CreateCalls
    /\ cres = NoResult
    /\ sa = NoneObj
    /\ sb = NoneObj
    /\ sres = Pending
    /\ heap = <<>>
    /\ bop = NoOp
    /\ nops = 0
    /\ pin = NoLogoCall
    /\ pres = NoLogoResult
    /\ sum = NoSum

CallCreate ==
    /\ cres.exc = "pending"
    /\ cres' = Create(cin.path, cin.queries, cin.settings, cin.world)
    /\ UNCHANGED <<sa, sb, sres, cin, pin, pres, heap, bop, sum, nops>>

NextCreate == CallCreate

SpecCreate == InitCreate /\ [][NextCreate]_vars

-----------------------------------------------------------------------------
(* One badge: it is constructed, then set, img, picture and str are called *)
(* on it.                                                                   *)

InitBadge ==
    /\ heap \in {<<BadgeInit(a)>> : a \in BadgeArgs}
    /\ bop = NoOp
    /\ nops = 0
    /\ sa = NoneObj
    /\ sb = NoneObj
    /\ sres = Pending
    /\ cin = NoCall
    /\ cres = NoResult
    /\ pin = NoLogoCall
    /\ pres = NoLogoResult
    /\ sum = NoSum

Others == <<sa, sb, sres, cin, cres, pin, pres>>

\* heap[id].set(a)
Set(id, a) ==
    /\ nops < MaxOps
    /\ heap' = [heap EXCEPT ![id] = BadgeSet(heap[id], a)]
    /\ bop' = [NoOp EXCEPT !.name = "set", !.self = id, !.args = a]
    /\ nops' = nops + 1
    /\ UNCHANGED <<sum, Others>>

\* heap[id].img(a)
Img(id, a) ==
    /\ nops < MaxOps
    /\ bop' = [NoOp EXCEPT !.name = "img", !.self = id, !.args = a,
                           !.element = BadgeImg(heap[id], a)]
    /\ nops' = nops + 1
    /\ UNCHANGED <<heap, sum, Others>>

\* heap[id].picture(a)
Picture(id, a) ==
    /\ nops < MaxOps
    /\ bop' = [NoOp EXCEPT !.name = "picture", !.self = id, !.args = a,
                           !.element = BadgePicture(heap[id], a)]
    /\ nops' = nops + 1
    /\ UNCHANGED <<heap, sum, Others>>

\* str(heap[id])
Str(id) ==
    /\ nops < MaxOps
    /\ bop' = [NoOp EXCEPT !.name = "str", !.self = id,
                           !.element = BadgeStr(heap[id])]
    /\ nops' = nops + 1
    /\ UNCHANGED <<heap, sum, Others>>

NextBadge ==
    \E id \in 1..Len(heap) :
        \/ \E a \in SetArgs : Set(id, a)
        \/ \E a \in ImgArgs : Img(id, a)
        \/ \E a \in SetArgs : Picture(id, a)
        \/ Str(id)

SpecBadge == InitBadge /\ [][NextBadge]_vars

-----------------------------------------------------------------------------
(* Two badges and the + operator.                                           *)

InitAdd ==
    /\ heap \in {<<BadgeInit(a), BadgeInit(b)>> : a \in BadgeArgs, b \in BadgeArgs}
    /\ bop = NoOp
    /\ nops = 0
    /\ sa = NoneObj
    /\ sb = NoneObj
    /\ sres = Pending
    /\ cin = NoCall
    /\ cres = NoResult
    /\ pin = NoLogoCall
    /\ pres = NoLogoResult
    /\ sum = NoSum

\* Mutant of AddBadge: without the isinstance check, a right operand that is
\* no Badge is taken as None.
AddBadge_NoTypeCheck(id, other) ==
    /\ bop.name = ""
    /\ IF other.kind # "Badge"
       THEN /\ bop' = [NoOp EXCEPT !.name = "add", !.self = id,
                                   !.other = other, !.ret = id]
            /\ heap' = heap
       ELSE /\ bop' = [NoOp EXCEPT !.name = "add", !.self = id,
                                   !.other = other, !.ret = Len(heap) + 1]
            /\ heap' = Append(heap, BadgeInit(AddArgs(heap[id], heap[other.id])))
    /\ sum' = [self |-> id, other |-> other, ret |-> bop'.ret]
    /\ nops' = nops + 1
    /\ UNCHANGED Others

\* heap[id] + other: Badge.__add__, the whole call.  A new Badge gets the
\* next free identity; `return self` returns the identity of the left
\* operand.
AddBadge(id, other) ==
    /\ bop.name = ""
    /\ IF other.kind = "NoneType"
       THEN /\ bop' = [NoOp EXCEPT !.name = "add", !.self = id,
                                   !.other = other, !.ret = id]
            /\ heap' = heap
       ELSE IF other.kind # "Badge"
       THEN /\ bop' = [NoOp EXCEPT !.name = "add", !.self = id,
                                   !.other = other, !.exc = "TypeError"]
            /\ heap' = heap
       ELSE /\ bop' = [NoOp EXCEPT !.name = "add", !.self = id,
                                   !.other = other, !.ret = Len(heap) + 1]
            /\ heap' = Append(heap, BadgeInit(AddArgs(heap[id], heap[other.id])))
    /\ sum' = [self |-> id, other |-> other, ret |-> bop'.ret]
    /\ nops' = nops + 1
    /\ UNCHANGED Others

NextAdd ==
    \E id \in 1..Len(heap) :
        \E other \in {BadgeRef(j) : j \in 1..Len(heap)} \cup {NoneRef, StrRef} :
            AddBadge(id, other)

SpecAdd == InitAdd /\ [][NextAdd]_vars


-----------------------------------------------------------------------------
(* The logo resolver: a logo reference is drawn, then _process_logo is      *)
(* applied to it.                                                           *)

InitLogo ==
    /\ pin \in LogoCalls
    /\ pres = NoLogoResult
    /\ sa = NoneObj
    /\ sb = NoneObj
    /\ sres = Pending
    /\ cin = NoCall
    /\ cres = NoResult
    /\ heap = <<>>
    /\ bop = NoOp
    /\ nops = 0
    /\ sum = NoSum

\* ShieldsBadge._process_logo(pin.logo)
ResolveLogo ==
    /\ pres.exc = "pending"
    /\ pres' = ProcessLogo(pin.logo, pin.world)
    /\ UNCHANGED <<sa, sb, sres, cin, cres, pin, heap, bop, sum, nops>>

NextLogo == ResolveLogo

SpecLogo == InitLogo /\ [][NextLogo]_vars

-----------------------------------------------------------------------------
(* Two badges, their sum, then set called on any of the objects.            *)

InitShare ==
    /\ heap \in {<<BadgeInit(a), BadgeInit(b)>> : a \in ShareArgs, b \in ShareArgs}
    /\ bop = NoOp
    /\ sum = NoSum
    /\ nops = 0
    /\ sa = NoneObj
    /\ sb = NoneObj
    /\ sres = Pending
    /\ cin = NoCall
    /\ cres = NoResult
    /\ pin = NoLogoCall
    /\ pres = NoLogoResult

\* heap[id].set(a), called after the + was evaluated
SetAfterAdd(id, a) ==
    /\ sum.self # 0
    /\ nops < 1 + MaxSets
    /\ heap' = [heap EXCEPT ![id] = BadgeSet(heap[id], a)]
    /\ bop' = [NoOp EXCEPT !.name = "set", !.self = id, !.args = a]
    /\ nops' = nops + 1
    /\ UNCHANGED <<sum, Others>>

NextShare ==
    \E id \in 1..Len(heap) :
        \/ \E other \in {BadgeRef(j) : j \in 1..Len(heap)} \cup {NoneRef} :
                AddBadge(id, other)
        \/ \E a \in ShareSetArgs : SetAfterAdd(id, a)

SpecShare == InitShare /\ [][NextShare]_vars
-----------------------------------------------------------------------------
(* Claims *)

\* C1: for ShieldsSettings A and B, every field f of A + B is B.f when B.f
\* is not None and A.f otherwise (a field set in A and unset in B survives).
C1_MergeKeepsPresentFields ==
    (sres.op = "add" /\ sa.cls = "ShieldsSettings"
                     /\ sb.cls = "ShieldsSettings") =>
        /\ sres.exc = ""
        /\ \A f \in SettingsFields :
              sres.val.fields[f] =
                  IF sb.fields[f] # None THEN sb.fields[f] ELSE sa.fields[f]

\* C2: with default settings D (sa) and per-call settings S (sb), every
\* field set in S keeps S's value in the effective settings and D's value is
\* used only for the fields S leaves unset; with S absent the effective
\* settings are D.
C2_PerCallSettingsOverrideDefaults ==
    (sres.op = "effective" /\ sa.cls = "ShieldsSettings") =>
        /\ sres.exc = ""
        /\ sb.cls = "NoneType" => sres.val = sa
        /\ sb.cls = "ShieldsSettings" =>
              \A f \in SettingsFields :
                  sres.val.fields[f] =
                      IF sb.fields[f] # None THEN sb.fields[f]
                                             ELSE sa.fields[f]

\* The dark field that overrides each of the four themed query keys.
DarkFieldOf(k) ==
    CASE k = "color" -> "color_dark"
      [] k = "labelColor" -> "label_color_dark"
      [] k = "logo" -> "logo_dark"
      [] k = "logoColor" -> "logo_color_dark"

ThemedKeys == {"color", "labelColor", "logo", "logoColor"}

\* C3: create returns no dark URL if and only if none of color_dark,
\* label_color_dark, logo_dark, logo_color_dark is set (not None), whatever
\* the value of a set field, the empty string included.
C3_DarkUrlAbsentIffNoDarkField ==
    (cres.exc = "") =>
        (~cres.themed <=> \A f \in DarkFields : cin.settings[f] = None)

\* C4: a dark URL's queries are ALL the light URL's queries overlaid with
\* the dark fields that are set: a light query whose key has no dark
\* override (color, labelColor, logo, logoColor included) is in the dark URL
\* with the light value.
C4_DarkUrlClonesLightQueries ==
    (cres.exc = "" /\ cres.themed) =>
        \A k \in DOMAIN cres.light.queries :
            (k \in ThemedKeys => cin.settings[DarkFieldOf(k)] = None) =>
                /\ k \in DOMAIN cres.dark.queries
                /\ cres.dark.queries[k] = cres.light.queries[k]

\* The value the static queries give key k: None when they have no such key.
StaticValue(k) ==
    IF cin.queries.given /\ k \in DOMAIN cin.queries.dict
    THEN cin.queries.dict[k] ELSE None

\* C4 as amended: a dark URL has, for every key other than color,
\* labelColor, logo and logoColor, exactly the light URL's query; color,
\* labelColor and logoColor carry the dark field when it is set and
\* otherwise the static query of that key (never the light setting); logo
\* carries the resolved dark logo when logo_dark is non-empty, otherwise the
\* resolved light logo, otherwise the static query.
C4_DarkUrlOverlaysCommonQueries ==
    (cres.exc = "" /\ cres.themed) =>
        LET dq == cres.dark.queries
            lq == cres.light.queries
            Has(q, k, v) == IF v = None THEN k \notin DOMAIN q
                            ELSE k \in DOMAIN q /\ q[k] = v
            darkLogo == cin.settings["logo_dark"]
            lightLogo == cin.settings["logo"]
        IN /\ \A k \in ((DOMAIN dq) \cup (DOMAIN lq)) \ ThemedKeys :
                /\ k \in DOMAIN dq
                /\ k \in DOMAIN lq
                /\ dq[k] = lq[k]
           /\ \A k \in {"color", "labelColor", "logoColor"} :
                Has(dq, k, IF cin.settings[DarkFieldOf(k)] # None
                           THEN cin.settings[DarkFieldOf(k)]
                           ELSE StaticValue(k))
           /\ Has(dq, "logo",
                  IF Truthy(darkLogo) THEN ProcessLogo(darkLogo, cin.world).val
                  ELSE IF Truthy(lightLogo) THEN lq["logo"]
                  ELSE StaticValue("logo"))

\* C4 witness: a themed badge whose light URL has a color and whose dark URL
\* has none, next to a logo both URLs share.
C4_Witness ==
    /\ cres.exc = ""
    /\ cres.themed
    /\ "color" \in DOMAIN cres.light.queries
    /\ "color" \notin DOMAIN cres.dark.queries
    /\ cin.settings["logo_color_dark"] # None

\* The settings field each query key is rendered from.
FieldOf(k) ==
    CASE k = "style" -> "style"
      [] k = "logoSize" -> "logo_size"
      [] k = "logoWidth" -> "logo_width"
      [] k = "label" -> "label"
      [] k = "cacheSeconds" -> "cache_seconds"
      [] k = "color" -> "color"
      [] k = "labelColor" -> "label_color"
      [] k = "logo" -> "logo"
      [] k = "logoColor" -> "logo_color"

\* C5: for every query key given both by the static queries and by a set
\* field of the settings, the light URL carries the static query's value.
C5_StaticQueriesWin ==
    (cres.exc = "") =>
        \A k \in StaticKeys \ {"message"} :
            (StaticValue(k) # None /\ cin.settings[FieldOf(k)] # None) =>
                /\ k \in DOMAIN cres.light.queries
                /\ cres.light.queries[k] = StaticValue(k)

\* C6: no query of a produced URL, light or dark, has the value None.
C6_NoAbsentQueryValue ==
    (cres.exc = "") =>
        /\ \A k \in DOMAIN cres.light.queries : cres.light.queries[k] # None
        /\ cres.themed =>
              \A k \in DOMAIN cres.dark.queries : cres.dark.queries[k] # None

\* C6 witness: a themed badge built from settings and static queries that
\* hold None values, with queries on both URLs.
C6_Witness ==
    /\ cres.exc = ""
    /\ cres.themed
    /\ cin.queries.given
    /\ \E k \in DOMAIN cin.queries.dict : cin.queries.dict[k] = None
    /\ cin.settings["color"] = None
    /\ DOMAIN cres.light.queries # {}
    /\ DOMAIN cres.dark.queries # {}

\* The last operation was A + B for two Badge objects A and B, and it
\* returned.
AddedBadges == bop.name = "add" /\ bop.other.kind = "Badge" /\ bop.exc = ""

Empty == PyStr(<<>>)

\* C7: the URLs of A + B are the left operand's: src_light is A.src_light
\* unless that is absent (then B.src_light), and likewise src_dark.
C7_AddTakesLeftUrls ==
    AddedBadges =>
        LET A == heap[bop.self]
            B == heap[bop.other.id]
            R == heap[bop.ret]
        IN /\ R.src_light = IF A.src_light # None THEN A.src_light
                                                   ELSE B.src_light
           /\ R.src_dark = IF A.src_dark # None THEN A.src_dark
                                                 ELSE B.src_dark

\* C7 as amended: the URLs of A + B are the right operand's: src_light is
\* B.src_light unless that is absent or empty (then A.src_light), and
\* likewise src_dark.
C7_AddTakesRightUrls ==
    AddedBadges =>
        LET A == heap[bop.self]
            B == heap[bop.other.id]
            R == heap[bop.ret]
        IN /\ R.src_light = IF B.src_light \notin {None, Empty}
                            THEN B.src_light ELSE A.src_light
           /\ R.src_dark = IF B.src_dark \notin {None, Empty}
                           THEN B.src_dark ELSE A.src_dark

\* C7 witness: two badges with different light and dark URLs were added and
\* the result has the right operand's.
C7_Witness ==
    /\ AddedBadges
    /\ heap[bop.self].src_dark \notin {None, Empty}
    /\ heap[bop.other.id].src_dark \notin {None, Empty}
    /\ heap[bop.self].src_dark # heap[bop.other.id].src_dark
    /\ heap[bop.self].src_light # heap[bop.other.id].src_light
    /\ heap[bop.ret].src_dark = heap[bop.other.id].src_dark

\* C8: each of the five attribute dicts of A + B has every key of A's and of
\* B's dict, with B's value on the keys of B and A's value on the others.
C8_AddUnitesAttributes ==
    AddedBadges =>
        LET A == heap[bop.self]
            B == heap[bop.other.id]
            R == heap[bop.ret]
        IN \A f \in AttrFields :
              /\ DOMAIN R[f] = (DOMAIN A[f]) \cup (DOMAIN B[f])
              /\ \A k \in DOMAIN B[f] : R[f][k] = B[f][k]
              /\ \A k \in (DOMAIN A[f]) \ (DOMAIN B[f]) : R[f][k] = A[f][k]

\* C8 witness: the operands' image attributes share a key, with different
\* values, and the left one has a key the right one lacks.
C8_Witness ==
    /\ AddedBadges
    /\ LET A == heap[bop.self].image_attributes
           B == heap[bop.other.id].image_attributes
       IN /\ \E k \in (DOMAIN A) \cap (DOMAIN B) : A[k] # B[k]
          /\ (DOMAIN A) \ (DOMAIN B) # {}

\* C9: set changes exactly the fields whose argument is given: such an
\* attribute dict becomes the old dict overlaid key by key with the argument,
\* the prefer-light flag becomes the argument; every other field, src_light
\* and src_dark keep their values.
C9_SetMergesGivenFields ==
    [][(bop'.name = "set" /\ nops' # nops) =>
        LET a == bop'.args
            old == heap[bop'.self]
            new == heap'[bop'.self]
        IN /\ DOMAIN heap' = DOMAIN heap
           /\ \A j \in (DOMAIN heap) \ {bop'.self} : heap'[j] = heap[j]
           /\ new.src_light = old.src_light
           /\ new.src_dark = old.src_dark
           /\ new.default_img_light =
                IF a.default_img_light.given THEN a.default_img_light.val
                ELSE old.default_img_light
           /\ \A f \in AttrFields :
                IF a[f].given
                THEN /\ DOMAIN new[f] = (DOMAIN old[f]) \cup (DOMAIN a[f].dict)
                     /\ \A k \in DOMAIN a[f].dict : new[f][k] = a[f].dict[k]
                     /\ \A k \in (DOMAIN old[f]) \ (DOMAIN a[f].dict) :
                            new[f][k] = old[f][k]
                ELSE new[f] = old[f]]_vars

\* C9 witness: set was called with a non-empty dict on a badge that keeps a
\* key the argument does not have.
C9_Witness ==
    /\ bop.name = "set"
    /\ \E f \in AttrFields :
          /\ bop.args[f].given
          /\ DOMAIN bop.args[f].dict # {}
          /\ (DOMAIN heap[bop.self][f]) \ (DOMAIN bop.args[f].dict) # {}

\* C10: img called with an image-attribute override still applies every
\* stored image attribute whose key is not in the override (stored merged
\* with the override).
C10_ImgMergesOverride ==
    (bop.name = "img" /\ bop.args.image_attributes.given) =>
        LET stored == heap[bop.self].image_attributes
            given == bop.args.image_attributes.dict
            used == bop.element.image_attributes
        IN \A k \in (DOMAIN stored) \ (DOMAIN given) :
              k \in DOMAIN used /\ used[k] = stored[k]

\* C10 as amended: img called with an image-attribute override applies the
\* override alone, and the stored image attributes only when no override is
\* given.
C10_ImgOverrideReplaces ==
    (bop.name = "img") =>
        bop.element.image_attributes =
            IF bop.args.image_attributes.given
            THEN bop.args.image_attributes.dict
            ELSE heap[bop.self].image_attributes

\* C10 witness: img was called with an override on a badge that stores an
\* attribute the override does not have.
C10_Witness ==
    /\ bop.name = "img"
    /\ bop.args.image_attributes.given
    /\ (DOMAIN heap[bop.self].image_attributes)
            \ (DOMAIN bop.args.image_attributes.dict) # {}
    /\ bop.element.tag = "img"

\* The arguments of img that carry the overrides of a picture call.
ImgArgsOf(a) ==
    [image_attributes |-> a.image_attributes,
     anchor_attributes |-> a.anchor_attributes,
     light |-> a.default_img_light]

\* C11: for a badge without a dark URL, picture called with overrides builds
\* what img builds with the same overrides: a plain image, not a two-source
\* picture container.
C11_PictureOfLightOnlyIsImg ==
    (bop.name = "picture" /\ heap[bop.self].src_dark = None) =>
        /\ bop.element.tag = "img"
        /\ bop.element = BadgeImg(heap[bop.self], ImgArgsOf(bop.args))

\* C11 as amended: for a badge without a dark URL (None or empty), picture
\* still builds a two-source picture container, with src_light as both
\* sources, anchor-wrapped when the effective anchor attributes are not
\* empty; only str() of such a badge builds what img builds without
\* overrides.
C11_PictureOfLightOnlyUsesLightTwice ==
    LET self == heap[bop.self]
    IN /\ (bop.name = "picture" /\ ~Truthy(self.src_dark)) =>
            /\ bop.element.tag = "picture"
            /\ bop.element.src_light = self.src_light
            /\ bop.element.src_dark = self.src_light
            /\ bop.element.wrapped =
                  (DOMAIN OverrideOr(bop.args.anchor_attributes,
                                     self.anchor_attributes) # {})
       /\ (bop.name = "str" /\ ~Truthy(self.src_dark)) =>
            bop.element = BadgeImg(self, NoImgArgs)

\* C11 witness: picture was called with an image-attribute override on a
\* badge that has no dark URL.
C11_Witness ==
    /\ bop.name = "picture"
    /\ heap[bop.self].src_dark = None
    /\ bop.args.image_attributes.given
    /\ DOMAIN bop.args.image_attributes.dict # {}
    /\ bop.element.tag = "picture"

\* _process_logo was called and the call is over.
Resolved == pres.exc # "pending"

\* The logo reference is a pair (extension, data).
IsPair(logo) == logo.t = "tuple" /\ Len(logo.items) = 2

\* The value of a base64 character: its position in the alphabet.
B64Index(ch) == CHOOSE k \in 0..63 : B64Alphabet[k + 1] = ch

\* Text that base64.b64decode accepts as it stands: groups of four
\* characters of the alphabet, the last one padded with one or two "=".
IsBase64(chars) ==
    LET n == Len(chars)
        alphabet == {B64Alphabet[k] : k \in 1..64}
    IN /\ n % 4 = 0
       /\ \A k \in 1..n :
            \/ chars[k] \in alphabet
            \/ chars[k] = "=" /\ k >= n - 1 /\ (k = n - 1 => chars[n] = "=")

\* base64.b64decode(chars) of such a text: four characters give three
\* octets, a padded group one or two.
RECURSIVE B64Decode(_)
B64Decode(chars) ==
    IF Len(chars) < 4 THEN <<>>
    ELSE LET a == B64Index(chars[1])
             b == B64Index(chars[2])
         IN IF chars[3] = "=" THEN <<a * 4 + b \div 16>>
            ELSE LET c == B64Index(chars[3])
                 IN IF chars[4] = "="
                    THEN <<a * 4 + b \div 16, (b % 16) * 16 + c \div 4>>
                    ELSE <<a * 4 + b \div 16, (b % 16) * 16 + c \div 4,
                           (c % 4) * 64 + B64Index(chars[4])>>
                            \o B64Decode(SubSeq(chars, 5, Len(chars)))

\* C12: for every supported extension e and bytes b, resolving (e, b)
\* returns a string that starts with "data:" + mime(e) + ";base64,", and
\* what follows the comma is base64 text that decodes to exactly b.
C12_EncodedLogoDecodesToContent ==
    (/\ Resolved
     /\ IsPair(pin.logo)
     /\ InMimeType(pin.logo.items[1])
     /\ pin.logo.items[2].t = "bytes") =>
        LET e == pin.logo.items[1].s
            b == pin.logo.items[2].b
            text == pres.val.s
            prefix == T_data \o MimeType[e] \o T_base64
            payload == SubSeq(text, LastIndexOf(text, ",") + 1, Len(text))
        IN /\ pres.exc = ""
           /\ pres.val.t = "str"
           /\ StartsWith(text, prefix)
           /\ Len(payload) = Len(text) - Len(prefix)
           /\ IsBase64(payload)
           /\ B64Decode(payload) = b

\* C12 witness: a pair of the extension "svg" and three octets was resolved
\* to a string.
C12_Witness ==
    /\ Resolved
    /\ IsPair(pin.logo)
    /\ pin.logo.items[1] = PyStr(<<"s", "v", "g">>)
    /\ pin.logo.items[2].t = "bytes"
    /\ Len(pin.logo.items[2].b) = 3
    /\ pin.logo.items[2].b[1] = 255
    /\ pres.exc = ""
    /\ Len(pres.val.s) > 4

\* The extension a logo reference resolves to: the one named in a pair, the
\* suffix of a Path.
ResolvedExtension(logo) ==
    IF IsPair(logo) THEN logo.items[1]
    ELSE PyStr(DropFirst(PathSuffix(logo.s)))

\* C13: a logo reference given as a pair (extension, data) or as a Path,
\* whose extension is not a supported one, is rejected with ValueError and
\* nothing was fetched or read before.
C13_UnsupportedRejectedBeforeIO ==
    (/\ Resolved
     /\ IsPair(pin.logo) \/ pin.logo.t = "Path"
     /\ ~InMimeType(ResolvedExtension(pin.logo))) =>
        /\ pres.exc = "ValueError"
        /\ pres.io = <<>>

\* C14: for a ShieldsSettings object, A + None returns A and None + B
\* returns B, every field as it was.
C14_NoneIsIdentityOfMerge ==
    (sres.op = "add") =>
        /\ (sa.cls = "ShieldsSettings" /\ sb.cls = "NoneType") =>
              /\ sres.exc = ""
              /\ sres.val = sa
        /\ (sa.cls = "NoneType" /\ sb.cls = "ShieldsSettings") =>
              /\ sres.exc = ""
              /\ sres.val = sb

\* C14 witness: None + B was evaluated for a B with a field set, and gave B.
C14_Witness ==
    /\ sres.op = "add"
    /\ sa.cls = "NoneType"
    /\ sb.cls = "ShieldsSettings"
    /\ \E f \in SettingsFields : sb.fields[f] # None
    /\ sres.val = sb

\* C15: adding a ShieldsSettings object and a value that is neither None nor
\* a ShieldsSettings, on either side, raises TypeError and gives no object.
C15_ForeignOperandRejected ==
    (/\ sres.op = "add"
     /\ \/ sa.cls \notin {"NoneType", "ShieldsSettings"}
        \/ sb.cls \notin {"NoneType", "ShieldsSettings"}) =>
        /\ sres.exc = "TypeError"
        /\ sres.val = NoneObj

\* C15 witness: A + {} and {} + B were evaluated; here the first, for an A
\* with a field set.
C15_Witness ==
    /\ sres.op = "add"
    /\ sa.cls = "ShieldsSettings"
    /\ \E f \in SettingsFields : sa.fields[f] # None
    /\ sb.cls = "dict"
    /\ sres.exc = "TypeError"

\* C16: A + x raises TypeError for every x that is neither a Badge nor None,
\* and A + None returns A itself; in both cases no Badge is built and A's
\* URLs, five attribute dicts and prefer-light flag are what they were.
C16_AddRejectsForeignAndKeepsLeftOnNone ==
    [][(bop'.name = "add" /\ bop'.other.kind # "Badge") =>
        /\ heap' = heap
        /\ IF bop'.other.kind = "NoneType"
           THEN bop'.exc = "" /\ bop'.ret = bop'.self
           ELSE bop'.exc = "TypeError" /\ bop'.ret = 0]_vars

\* C16 witness: A + "text" was evaluated and raised TypeError, for an A with
\* a dark URL.
C16_Witness ==
    /\ bop.name = "add"
    /\ bop.other.kind = "str"
    /\ bop.exc = "TypeError"
    /\ Truthy(heap[bop.self].src_dark)
    /\ Len(heap) = 2

C18_BytesNeedExtension ==
    (Resolved /\ pin.logo.t = "bytes") =>
        /\ pres.exc = "ValueError"
        /\ pres.val = None

\* C18 witness: three octets were given as the logo, and rejected.
C18_Witness ==
    /\ Resolved
    /\ pin.logo.t = "bytes"
    /\ Len(pin.logo.b) = 3
    /\ pres.exc = "ValueError"

\* The text begins with "http://" or with "https://".
IsHttpText(chars) ==
    \E p \in {<<"h", "t", "t", "p", ":", "/", "/">>,
              <<"h", "t", "t", "p", "s", ":", "/", "/">>} :
        /\ Len(chars) >= Len(p)
        /\ \A k \in 1..Len(p) : chars[k] = p[k]

\* C19: resolving a str that starts with neither "http://" nor "https://"
\* returns that str unchanged, and nothing is fetched or read.
C19_PlainNameReturnedUnchanged ==
    (/\ Resolved
     /\ pin.logo.t = "str"
     /\ ~IsHttpText(pin.logo.s)) =>
        /\ pres.exc = ""
        /\ pres.val = pin.logo
        /\ pres.io = <<>>

\* C19 witness: the name "html5", which starts like a URL, was resolved and
\* came back as it was.
C19_Witness ==
    /\ Resolved
    /\ pin.logo = PyStr(<<"h", "t", "m", "l", "5">>)
    /\ pres.val = pin.logo
    /\ pres.io = <<>>

\* C20: for badges A and B, default_img_light of A + B is the logical OR of
\* A's and B's.
C20_AddOrsPreferLight ==
    AddedBadges =>
        heap[bop.ret].default_img_light =
            (heap[bop.self].default_img_light
                \/ heap[bop.other.id].default_img_light)

\* C20 witness: a badge that prefers light was added to one that does not,
\* on its right, and the sum prefers light.
C20_Witness ==
    /\ AddedBadges
    /\ heap[bop.self].default_img_light
    /\ ~heap[bop.other.id].default_img_light
    /\ heap[bop.ret].default_img_light

\* create was called and the call is over.
Created == cres.exc # "pending"

\* The logo query of a URL: None when the URL has none.
LogoQuery(url) ==
    IF "logo" \in DOMAIN url.queries THEN url.queries["logo"] ELSE None

\* C21: in a call of create that returns, _process_logo is called once for
\* the light logo when it is set (and not empty), and for the dark logo only
\* when logo_dark is set (and not empty) and differs from the light logo;
\* when logo_dark equals the light logo or is not set, the dark URL's logo is
\* the light one's resolved value and nothing is resolved, fetched or read a
\* second time.
C21_DarkLogoResolvedOnlyIfDifferent ==
    (Created /\ cres.exc = "") =>
        LET L == cin.settings["logo"]
            D == cin.settings["logo_dark"]
            again == cres.themed /\ Truthy(D) /\ D # L
        IN /\ cres.resolved =
                (IF Truthy(L) THEN <<L>> ELSE <<>>)
                    \o (IF again THEN <<D>> ELSE <<>>)
           /\ (cres.themed /\ ~again) =>
                /\ LogoQuery(cres.dark) = LogoQuery(cres.light)
                /\ cres.io = IF Truthy(L) THEN ProcessLogo(L, cin.world).io
                             ELSE <<>>

\* C21 as amended: _process_logo is called once for the light logo when it
\* is set and not empty, and then, unless that call failed, once for the
\* dark logo whenever logo_dark is set and not empty, equal to the light
\* logo or not; the I/O of the call is the I/O of these resolutions, in this
\* order.  Only when logo_dark is not set or empty is the dark URL's logo
\* the light one's resolved value, with no second resolution.
C21_DarkLogoResolvedWheneverSet ==
    Created =>
        LET L == cin.settings["logo"]
            D == cin.settings["logo_dark"]
            w == cin.world
            lightOk == ~Truthy(L) \/ ProcessLogo(L, w).exc = ""
            again == lightOk /\ Truthy(D)
        IN /\ cres.resolved =
                (IF Truthy(L) THEN <<L>> ELSE <<>>)
                    \o (IF again THEN <<D>> ELSE <<>>)
           /\ cres.io =
                (IF Truthy(L) THEN ProcessLogo(L, w).io ELSE <<>>)
                    \o (IF again THEN ProcessLogo(D, w).io ELSE <<>>)
           /\ (cres.exc = "" /\ cres.themed /\ ~Truthy(D)) =>
                LogoQuery(cres.dark) = LogoQuery(cres.light)

\* C21 witness: the same file is the light and the dark logo; it was
\* resolved twice and read twice, and both URLs carry it.
C21_Witness ==
    /\ Created
    /\ cres.exc = ""
    /\ cin.settings["logo"].t = "Path"
    /\ cin.settings["logo_dark"] = cin.settings["logo"]
    /\ Len(cres.resolved) = 2
    /\ Len(cres.io) = 2
    /\ LogoQuery(cres.dark) = LogoQuery(cres.light)
    /\ LogoQuery(cres.dark) # None

\* C22: img uses src_light whenever the effective prefer-light flag (the
\* light argument if given, else default_img_light) is true, src_dark when
\* the flag is false and the badge has a dark URL (src_dark neither None nor
\* empty), and src_light when the flag is false and it has none; the image
\* is wrapped in an anchor exactly when the effective anchor attributes (the
\* argument if given, else the stored ones) are not empty.
C22_ImgPicksSourceByFlag ==
    (bop.name = "img") =>
        LET self == heap[bop.self]
            flag == IF bop.args.light.given THEN bop.args.light.val
                    ELSE self.default_img_light
            anchors == IF bop.args.anchor_attributes.given
                       THEN bop.args.anchor_attributes.dict
                       ELSE self.anchor_attributes
        IN /\ bop.element.tag = "img"
           /\ bop.element.src =
                IF flag THEN self.src_light
                ELSE IF self.src_dark \notin {None, Empty} THEN self.src_dark
                ELSE self.src_light
           /\ bop.element.wrapped = (DOMAIN anchors # {})
           /\ bop.element.wrapped => bop.element.anchor_attributes = anchors

\* C22 witness: img(light=False) was called on a badge that prefers light
\* and has a dark URL, and the image shows the dark URL.
C22_Witness ==
    /\ bop.name = "img"
    /\ bop.args.light.given
    /\ ~bop.args.light.val
    /\ heap[bop.self].default_img_light
    /\ heap[bop.self].src_dark \notin {None, Empty}
    /\ bop.element.src = heap[bop.self].src_dark
    /\ bop.element.src # heap[bop.self].src_light

\* C23: a call of create has no partial success.  If resolving the light
\* logo fails, or resolving the dark logo after it, create raises that
\* exception and returns no badge, plain or themed; otherwise it returns a
\* badge whose light URL, and dark URL when themed, is complete: origin,
\* path, no None query, and the resolved logo as its logo query.
C23_CreateFailsOrFullySucceeds ==
    Created =>
        LET L == cin.settings["logo"]
            D == cin.settings["logo_dark"]
            light == IF Truthy(L) THEN ProcessLogo(L, cin.world)
                     ELSE LogoReturned(None, <<>>)
            dark == IF Truthy(D) THEN ProcessLogo(D, cin.world)
                    ELSE LogoReturned(None, <<>>)
            Complete(url, logo) ==
                /\ url.origin = "https://img.shields.io"
                /\ url.path = cin.path
                /\ \A k \in DOMAIN url.queries : url.queries[k] # None
                /\ logo # None => LogoQuery(url) = logo
        IN IF light.exc # "" \/ dark.exc # ""
           THEN /\ cres.exc = IF light.exc # "" THEN light.exc ELSE dark.exc
                /\ ~cres.themed
                /\ cres.light = NoUrl
                /\ cres.dark = NoUrl
           ELSE /\ cres.exc = ""
                /\ Complete(cres.light, light.val)
                /\ IF cres.themed
                   THEN Complete(cres.dark, IF Truthy(D) THEN dark.val
                                            ELSE light.val)
                   ELSE cres.dark = NoUrl

\* C23 witness: the light logo was resolved, the dark logo has an extension
\* that is not supported, and create raised.
C23_Witness ==
    /\ Created
    /\ Truthy(cin.settings["logo"])
    /\ ProcessLogo(cin.settings["logo"], cin.world).exc = ""
    /\ cin.settings["logo_dark"].t = "tuple"
    /\ Len(cres.resolved) = 2
    /\ cres.exc = "ValueError"
    /\ cres.light = NoUrl

\* C24: badges share no mutable state.  With C = A + x for a right operand
\* x that + accepts (a Badge or None), a set call on C leaves A, and x when
\* it is a Badge, as they were, and a set call on A or on x leaves C as it
\* was.
C24_SetNeverReachesAcrossSum ==
    [][(bop'.name = "set" /\ nops' # nops /\ sum.ret # 0) =>
        LET A == sum.self
            x == sum.other
            C == sum.ret
            id == bop'.self
        IN /\ id = C =>
                /\ heap'[A] = heap[A]
                /\ x.kind = "Badge" => heap'[x.id] = heap[x.id]
           /\ (id = A \/ (x.kind = "Badge" /\ id = x.id)) =>
                heap'[C] = heap[C]]_vars

=============================================================================
